---- MODULE Spec2Model ----
(***************************************************************************)
(* A model of src/main.py, the "Baby Stat" dashboard: one run of the       *)
(* script over an uploaded event log.  The run loads and normalizes the    *)
(* log (load_and_process_data), applies the start_date filter, parses the  *)
(* growth rows, splits the events into Gantt segments, evaluates the four  *)
(* overview metrics and ranks the best and the worst nights.               *)
(*                                                                         *)
(* Time.  The log's timestamps have minute resolution (DATE_FORMAT is      *)
(* "%Y-%m-%d %H:%M"), so every timestamp, duration and midpoint of the     *)
(* program is a whole number of seconds.  A datetime is the number of      *)
(* seconds since 00:00 of day 0, a date is a day number, a duration is a   *)
(* number of seconds (polars keeps microseconds; the factor 1e6 cancels in *)
(* every conversion to hours).  A time of day on the sentinel date         *)
(* CONSTANT_DATE is the number of seconds since that date's midnight.      *)
(*                                                                         *)
(* Null.  A nullable value is a sequence of length at most one: <<>> is    *)
(* polars' null and <<x>> is the value x.                                  *)
(***************************************************************************)
EXTENDS Integers, Sequences, FiniteSets

VARIABLES pc, raw, df, start_date, growth_df, gantt_df, metrics, raised,
          best_days_df, worst_days_df

vars == <<pc, raw, df, start_date, growth_df, gantt_df, metrics, raised,
          best_days_df, worst_days_df>>

----------------------------------------------------------------------------
(* Program constants *)

NIGHT_START_HOUR == 18

NIGHT_END_HOUR == 6

TopN == 10

----------------------------------------------------------------------------
(* Bounds of the model *)

\* rows of an unframed log, and the days their events start on
MaxRows == 3

MaxDay == 3

\* rows between the two boundary rows of a framed log
MaxMid == 2

\* days by which the user moves start_date past its default
MaxShift == 1

\* characters of a growth measurement's text
MaxLen == 3

\* days of a log of one 8-hour sleep per night
MaxNights == 5

\* nights of a ranking log, and nights of equal sleep in it
MaxRankNights == 21

MaxTie == 3

----------------------------------------------------------------------------
(* Nullable values, dates and times *)

Null == <<>>

Some(x) == <<x>>

IsNull(v) == v = <<>>

Val(v) == v[1]

HourSeconds == 60 * 60

DaySeconds == 24 * HourSeconds

\* the datetime of hour h, minute m of day d
At(d, h, m) == d * DaySeconds + h * HourSeconds + m * 60

\* Expr.dt.date()
DateOf(ts) == ts \div DaySeconds

\* Expr.dt.hour()
HourOf(ts) == (ts % DaySeconds) \div HourSeconds

\* the time of day of dt on CONSTANT_DATE
set_constant_date(dt) == dt % DaySeconds

\* the minimum / maximum of a column, null when it holds no value
SetMin(S) == IF S = {} THEN Null ELSE Some(CHOOSE x \in S : \A y \in S : x <= y)

SetMax(S) == IF S = {} THEN Null ELSE Some(CHOOSE x \in S : \A y \in S : x >= y)

----------------------------------------------------------------------------
(* load_and_process_data *)

\* the derived columns of one row, lines 53-81
Derive(r) ==
    [Type |-> r.Type, Start |-> r.Start, End |-> r.End,
     StartCondition |-> r.StartCondition,
     StartLocation |-> r.StartLocation,
     EndCondition |-> r.EndCondition,
     NightStart |-> At(DateOf(r.Start), NIGHT_START_HOUR, 0),
     StartDate |-> DateOf(r.Start),
     EndDate |-> IF IsNull(r.End) THEN Null ELSE Some(DateOf(Val(r.End))),
     Duration |-> IF IsNull(r.End) THEN Null ELSE Some(Val(r.End) - r.Start),
     StartTime |-> set_constant_date(r.Start),
     EndTime |-> IF IsNull(r.End) THEN Null
                 ELSE Some(set_constant_date(Val(r.End))),
     MiddlePoint |-> IF IsNull(r.End) THEN Null
                     ELSE Some(r.Start + (Val(r.End) - r.Start) \div 2)]

\* .filter(StartDate > StartDate.min())
TrimFirstDay(t) ==
    LET lo == SetMin({t[i].StartDate : i \in DOMAIN t})
    IN SelectSeq(t, LAMBDA r : ~IsNull(lo) /\ r.StartDate > Val(lo))

\* TrimLastDay with <= for <: the rows of the last day stay
TrimLastDay_Inclusive(t) ==
    LET hi == SetMax({Val(t[i].EndDate) : i \in {j \in DOMAIN t : ~IsNull(t[j].EndDate)}})
    IN SelectSeq(t, LAMBDA r : IsNull(r.EndDate)
                               \/ (~IsNull(hi) /\ Val(r.EndDate) <= Val(hi)))

\* .filter((EndDate < EndDate.max()) | EndDate.is_null())
TrimLastDay(t) ==
    LET hi == SetMax({Val(t[i].EndDate) : i \in {j \in DOMAIN t : ~IsNull(t[j].EndDate)}})
    IN SelectSeq(t, LAMBDA r : IsNull(r.EndDate)
                               \/ (~IsNull(hi) /\ Val(r.EndDate) < Val(hi)))

\* DayOrNightOf with the window tested as one range, start <= hour < end
DayOrNightOf_OneRange(r) ==
    IF ~IsNull(r.MiddlePoint)
       /\ (HourOf(Val(r.MiddlePoint)) >= NIGHT_START_HOUR
           /\ HourOf(Val(r.MiddlePoint)) < NIGHT_END_HOUR)
    THEN "Night" ELSE "Day"

\* the when/then/otherwise of DayOrNight: a null MiddlePoint makes the
\* condition null, and a null condition takes the otherwise branch
DayOrNightOf(r) ==
    IF ~IsNull(r.MiddlePoint)
       /\ (HourOf(Val(r.MiddlePoint)) >= NIGHT_START_HOUR
           \/ HourOf(Val(r.MiddlePoint)) < NIGHT_END_HOUR)
    THEN "Night" ELSE "Day"

\* NightDayOf with > for >=: an event of 18:00 sharp goes to the next day
NightDayOf_AfterStart(r) ==
    IF HourOf(r.StartTime) > NIGHT_START_HOUR
    THEN r.StartDate ELSE r.StartDate + 1

\* the when/then/otherwise of NightDay
NightDayOf(r) ==
    IF HourOf(r.StartTime) >= NIGHT_START_HOUR
    THEN r.StartDate ELSE r.StartDate + 1

Label(r) ==
    [Type |-> r.Type, Start |-> r.Start, End |-> r.End,
     StartCondition |-> r.StartCondition,
     StartLocation |-> r.StartLocation,
     EndCondition |-> r.EndCondition,
     NightStart |-> r.NightStart,
     StartDate |-> r.StartDate, EndDate |-> r.EndDate,
     Duration |-> r.Duration,
     StartTime |-> r.StartTime, EndTime |-> r.EndTime,
     MiddlePoint |-> r.MiddlePoint,
     DayOrNight |-> DayOrNightOf(r),
     NightDay |-> NightDayOf(r)]

load_and_process_data(log) ==
    LET parsed == [i \in DOMAIN log |-> Derive(log[i])]
        kept == TrimLastDay(TrimFirstDay(parsed))
    IN [i \in DOMAIN kept |-> Label(kept[i])]

----------------------------------------------------------------------------
(* growth_df *)

\* Expr.str.replace(pat, ""): the first occurrence of pat is removed
ReplaceFirst(s, pat) ==
    LET hits == {i \in 1..(Len(s) - Len(pat) + 1) :
                    SubSeq(s, i, i + Len(pat) - 1) = pat}
    IN IF hits = {} THEN s
       ELSE LET i == CHOOSE j \in hits : \A k \in hits : j <= k
            IN SubSeq(s, 1, i - 1) \o SubSeq(s, i + Len(pat), Len(s))

IsDigit(c) == c = "5"

\* the texts a cast to Float64 accepts, over the characters of the model:
\* digits with at most one point and at least one digit
IsFloat(s) ==
    /\ \A i \in DOMAIN s : IsDigit(s[i]) \/ s[i] = "."
    /\ Cardinality({i \in DOMAIN s : s[i] = "."}) <= 1
    /\ \E i \in DOMAIN s : IsDigit(s[i])

RECURSIVE DigitsValue(_)
DigitsValue(s) ==
    IF s = <<>> THEN 0 ELSE 10 * DigitsValue(SubSeq(s, 1, Len(s) - 1)) + 5

\* the number a text that IsFloat denotes: num / 10^scale
FloatOf(s) ==
    LET digits == SelectSeq(s, IsDigit)
        point == {i \in DOMAIN s : s[i] = "."}
    IN [num |-> DigitsValue(digits),
        scale |-> IF point = {} THEN 0
                  ELSE Len(s) - (CHOOSE i \in point : TRUE)]

\* .str.replace(unit, "").cast(pl.Float64) of one nullable text
Stripped(text, unit) == ReplaceFirst(Val(text), unit)

CastFails(text, unit) == ~IsNull(text) /\ ~IsFloat(Stripped(text, unit))

Measure(text, unit) ==
    IF IsNull(text) THEN Null ELSE Some(FloatOf(Stripped(text, unit)))

Kg == <<"k", "g">>

Cm == <<"c", "m">>

GrowthOf(t) == SelectSeq(t, LAMBDA r : r.Type = "Growth")

GrowthRaises(t) ==
    \E i \in DOMAIN GrowthOf(t) :
        LET r == GrowthOf(t)[i]
        IN \/ CastFails(r.StartCondition, Kg)
           \/ CastFails(r.StartLocation, Cm)
           \/ CastFails(r.EndCondition, Cm)

GrowthTable(t) ==
    LET g == GrowthOf(t)
    IN [i \in DOMAIN g |->
          [StartDate |-> g[i].StartDate,
           Weight |-> Measure(g[i].StartCondition, Kg),
           Height |-> Measure(g[i].StartLocation, Cm),
           HeadCircumference |-> Measure(g[i].EndCondition, Cm)]]

----------------------------------------------------------------------------
(* create_data_for_gantt.  Row is the index in df of the event a segment   *)
(* comes from: the program keeps no such column, the properties use it to  *)
(* tell the segments of one event from those of another.                   *)

Segment(r, startTime, endTime, date, i) ==
    [Type |-> r.Type, StartTime |-> startTime, EndTime |-> endTime,
     Date |-> date, Row |-> i]

\* a comparison with a null EndDate is null, and filter drops the row
one_day_df(t) ==
    LET rows == SelectSeq([i \in DOMAIN t |-> i],
                          LAMBDA i : ~IsNull(t[i].EndDate)
                                     /\ t[i].StartDate = Val(t[i].EndDate))
    IN [k \in DOMAIN rows |->
          Segment(t[rows[k]], t[rows[k]].StartTime, t[rows[k]].EndTime,
                  t[rows[k]].StartDate, rows[k])]

two_days_df(t) ==
    SelectSeq([i \in DOMAIN t |-> i],
              LAMBDA i : ~IsNull(t[i].EndDate)
                         /\ t[i].StartDate # Val(t[i].EndDate))

\* datetime(1, 1, 1, 23, 59, 59, 0) and datetime(1, 1, 1, 0, 0, 0, 0)
EndOfDay == 23 * HourSeconds + 59 * 60 + 59

StartOfDay == 0 * HourSeconds

two_days_part_1_df(t) ==
    LET rows == two_days_df(t)
    IN [k \in DOMAIN rows |->
          Segment(t[rows[k]], t[rows[k]].StartTime, Some(EndOfDay),
                  t[rows[k]].StartDate, rows[k])]

\* two_days_part_2_df without the literal StartTime: the second segment
\* keeps the event's own StartTime
two_days_part_2_df_OwnStart(t) ==
    LET rows == two_days_df(t)
    IN [k \in DOMAIN rows |->
          Segment(t[rows[k]], t[rows[k]].StartTime, t[rows[k]].EndTime,
                  Val(t[rows[k]].EndDate), rows[k])]

two_days_part_2_df(t) ==
    LET rows == two_days_df(t)
    IN [k \in DOMAIN rows |->
          Segment(t[rows[k]], StartOfDay, t[rows[k]].EndTime,
                  Val(t[rows[k]].EndDate), rows[k])]

create_data_for_gantt(t) ==
    one_day_df(t) \o two_days_part_1_df(t) \o two_days_part_2_df(t)

----------------------------------------------------------------------------
(* The overview metrics.  A mean is the fraction num / den; the floats of   *)
(* the program are taken as exact.                                          *)

RECURSIVE SumSeq(_)
SumSeq(s) == IF s = <<>> THEN 0 ELSE s[1] + SumSeq(Tail(s))

\* Duration.sum(): nulls are skipped, the sum of none is 0
DurationSum(t) ==
    SumSeq([i \in DOMAIN t |-> IF IsNull(t[i].Duration) THEN 0 ELSE Val(t[i].Duration)])

OfType(t, type) == SelectSeq(t, LAMBDA r : r.Type = type)

StartDates(t) == {t[i].StartDate : i \in DOMAIN t}

OnDate(t, d) == SelectSeq(t, LAMBDA r : r.StartDate = d)

RECURSIVE GCD(_, _)
GCD(a, b) == IF b = 0 THEN a ELSE GCD(b, a % b)

Frac(n, d) == [num |-> n \div GCD(n, d), den |-> d \div GCD(n, d)]

AddFrac(x, y) == Frac(x.num * y.den + y.num * x.den, x.den * y.den)

\* round(x, 0) of Python: to the nearest integer, a half to the even one
Round(x) ==
    LET q == x.num \div x.den
        r == x.num % x.den
    IN IF 2 * r < x.den THEN q
       ELSE IF 2 * r > x.den THEN q + 1
       ELSE IF q % 2 = 0 THEN q ELSE q + 1

\* SleepHoursPerDay with the seconds of a minute for those of an hour
SleepHoursPerDay_Minutes(t) ==
    LET sleeps == OfType(t, "Sleep")
    IN IF sleeps = <<>> THEN Null
       ELSE Some(Frac(DurationSum(sleeps),
                      60 * Cardinality(StartDates(sleeps))))

\* lines 303-308: the mean over the days of the hours slept on the day
SleepHoursPerDay(t) ==
    LET sleeps == OfType(t, "Sleep")
    IN IF sleeps = <<>> THEN Null
       ELSE Some(Frac(DurationSum(sleeps),
                      HourSeconds * Cardinality(StartDates(sleeps))))

\* lines 320-325
SleepsPerDay(t) ==
    LET sleeps == OfType(t, "Sleep")
    IN IF sleeps = <<>> THEN Null
       ELSE Some(Frac(Len(sleeps), Cardinality(StartDates(sleeps))))

\* lines 337-350: per day the share of the night sleep, 0 / 0 being NaN
NaN == [num |-> 0, den |-> 0]

NightSleeps(t) == SelectSeq(t, LAMBDA r : r.DayOrNight = "Night")

RECURSIVE ShareSum(_, _)
ShareSum(t, days) ==
    IF days = {} THEN Frac(0, 1)
    ELSE LET d == CHOOSE x \in days : TRUE
         IN AddFrac(Frac(DurationSum(NightSleeps(OnDate(t, d))),
                         DurationSum(OnDate(t, d))),
                    ShareSum(t, days \ {d}))

ShareOfNightSleeps(t) ==
    LET sleeps == OfType(t, "Sleep")
        days == StartDates(sleeps)
    IN IF sleeps = <<>> THEN Null
       ELSE IF \E d \in days : DurationSum(OnDate(sleeps, d)) = 0 THEN Some(NaN)
       ELSE LET total == ShareSum(sleeps, days)
            IN Some(Frac(100 * total.num, total.den * Cardinality(days)))

\* lines 363-368
FeedsPerDay(t) ==
    LET feeds == OfType(t, "Feed")
    IN IF feeds = <<>> THEN Null
       ELSE Some(Frac(Len(feeds), Cardinality(StartDates(feeds))))

----------------------------------------------------------------------------
(* create_best_days_df and create_worst_days_df.  group_by returns its      *)
(* groups in no defined order and sort is not stable, so rows of equal      *)
(* Duration come out in any order: each function is the set of the tables   *)
(* it can return.                                                           *)

Qualifying(t) ==
    SelectSeq(OfType(t, "Sleep"), LAMBDA r : r.DayOrNight = "Night")

\* Duration.mean() of a group: null when the group holds no Duration
MeanDuration(t) ==
    LET known == SelectSeq(t, LAMBDA r : ~IsNull(r.Duration))
    IN IF known = <<>> THEN Null
       ELSE Some([sum |-> DurationSum(known), len |-> Len(known)])

\* .group_by("NightDay").agg(pl.col("Duration").mean())
NightMeans(t) ==
    LET q == Qualifying(t)
    IN {[Date |-> d,
         Duration |-> MeanDuration(SelectSeq(q, LAMBDA r : r.NightDay = d))]
        : d \in {q[i].NightDay : i \in DOMAIN q}}

Shorter(x, y) == Val(x).sum * Val(y).len < Val(y).sum * Val(x).len

\* x has to come before y: nulls last, else by Duration
Before(x, y, descending) ==
    /\ ~IsNull(x.Duration)
    /\ \/ IsNull(y.Duration)
       \/ IF descending THEN Shorter(y.Duration, x.Duration)
          ELSE Shorter(x.Duration, y.Duration)

\* .sort("Duration", ...).head(k): the first k rows of every order sort can
\* leave the rows in
RECURSIVE SortedHeads(_, _, _)
SortedHeads(rows, k, descending) ==
    IF k = 0 \/ rows = {} THEN {<<>>}
    ELSE UNION {{<<x>> \o s : s \in SortedHeads(rows \ {x}, k - 1, descending)}
                : x \in {y \in rows : \A z \in rows : ~Before(z, y, descending)}}

create_best_days_df(t) == SortedHeads(NightMeans(t), TopN, TRUE)

\* create_worst_days_df sorting as create_best_days_df does
create_worst_days_df_Descending(t) == SortedHeads(NightMeans(t), TopN, TRUE)

create_worst_days_df(t) == SortedHeads(NightMeans(t), TopN, FALSE)

----------------------------------------------------------------------------
(* The uploaded logs *)

Row(type, start, end) ==
    [Type |-> type, Start |-> start, End |-> end,
     StartCondition |-> Null, StartLocation |-> Null, EndCondition |-> Null]

SeqsUpTo(S, n) == UNION {[1..k -> S] : k \in 0..n}

\* unframed logs: sleeps that start at 22:00 of any day and are still open,
\* end within the day or end the next morning
TrimEnds(s) == {Null, Some(s + HourSeconds), Some(s + 8 * HourSeconds)}

TrimRows ==
    UNION {{Row("Sleep", At(d, 22, 0), e) : e \in TrimEnds(At(d, 22, 0))}
           : d \in 1..MaxDay}

TrimLogs == SeqsUpTo(TrimRows, MaxRows)

\* framed logs: a boundary row on day 1, rows of day 2, a boundary row on day 4
FrameFirst == Row("Sleep", At(1, 12, 0), Some(At(1, 13, 0)))

FrameLast == Row("Sleep", At(4, 12, 0), Some(At(4, 13, 0)))

Framed(mid) == <<FrameFirst>> \o mid \o <<FrameLast>>

MidStarts == {At(2, 5, 58), At(2, 17, 58), At(2, 18, 0)}

MidEnds(s) == {Null, Some(s + 2 * 60), Some(s + 4 * 60), Some(s + 8 * HourSeconds)}

\* a sleep that is open or ends, or a feed, which has no End
MidRows ==
    UNION {{Row("Sleep", s, e) : e \in MidEnds(s)} \cup {Row("Feed", s, Null)}
           : s \in MidStarts}

FramedLogs == {Framed(mid) : mid \in SeqsUpTo(MidRows, MaxMid)}

\* growth logs: one Growth row between the boundary rows, one of its three
\* measurement columns filled with a text over the characters of a
\* measurement ("5", ".") and of the column's unit
Texts(chars) == UNION {[1..k -> chars] : k \in 1..MaxLen}

WeightChars == {"5", ".", "k", "g"}

LengthChars == {"5", ".", "c", "m"}

GrowthRow(w, h, c) ==
    [Type |-> "Growth", Start |-> At(2, 12, 0), End |-> Null,
     StartCondition |-> w, StartLocation |-> h, EndCondition |-> c]

GrowthRows ==
    {GrowthRow(Some(t), Null, Null) : t \in Texts(WeightChars)}
    \cup {GrowthRow(Null, Some(t), Null) : t \in Texts(LengthChars)}
    \cup {GrowthRow(Null, Null, Some(t)) : t \in Texts(LengthChars)}

GrowthLogs == {Framed(<<g>>) : g \in GrowthRows}

\* nightly logs: on each of n days in a row one sleep from 22:00 for 8 hours
NightlyLog(n) ==
    [d \in 1..n |-> Row("Sleep", At(d, 22, 0), Some(At(d, 22, 0) + 8 * HourSeconds))]

NightlyLogs == {NightlyLog(n) : n \in 3..MaxNights}

\* ranking logs: n nights between two boundary nights, the sleep of night d
\* lasting 6 hours and d minutes, but for `tie` nights from night `from` on,
\* which all last as long as night `from`; a feed and a nap on day 3
RankSleep(d, from, tie) ==
    LET e == IF d >= from /\ d < from + tie THEN from ELSE d
    IN Row("Sleep", At(d, 22, 0), Some(At(d, 22, 0) + 6 * HourSeconds + e * 60))

RankLog(n, from, tie) ==
    [d \in 1..(n + 2) |-> RankSleep(d, from, tie)]
    \o <<Row("Feed", At(3, 9, 0), Null),
         Row("Sleep", At(3, 12, 0), Some(At(3, 13, 0)))>>

RankLogs ==
    {RankLog(n, from, tie) :
        n \in (2 * TopN)..MaxRankNights, from \in 2..(MaxRankNights + 1), tie \in 1..MaxTie}

Logs == TrimLogs \cup FramedLogs \cup GrowthLogs \cup NightlyLogs \cup RankLogs

----------------------------------------------------------------------------
(* The run of the script *)

NoMetrics ==
    [SleepHoursPerDay |-> Null, SleepsPerDay |-> Null,
     PercentOfNightSleep |-> Null, FeedsPerDay |-> Null]

Init ==
    /\ raw \in Logs
    /\ pc = "load"
    /\ df = <<>>
    /\ start_date = Null
    /\ growth_df = <<>>
    /\ gantt_df = <<>>
    /\ metrics = NoMetrics
    /\ raised = "none"
    /\ best_days_df = <<>>
    /\ worst_days_df = <<>>

\* line 268
Load ==
    /\ pc = "load"
    /\ df' = load_and_process_data(raw)
    /\ pc' = "start_date"
    /\ UNCHANGED <<raw, start_date, growth_df, gantt_df, metrics, raised,
                   best_days_df, worst_days_df>>

\* lines 271-279: the date input (its default is the first StartDate left, the
\* user may move it later) and the filter StartDate >= start_date; a
\* comparison with a null start_date is null, and filter drops the row
SelectStartDate ==
    /\ pc = "start_date"
    /\ LET first == SetMin({df[i].StartDate : i \in DOMAIN df})
       IN \E d \in (IF IsNull(first) THEN {Null}
                    ELSE {Some(Val(first) + k) : k \in 0..MaxShift}) :
            /\ start_date' = d
            /\ df' = SelectSeq(df, LAMBDA r : ~IsNull(d) /\ r.StartDate >= Val(d))
    /\ pc' = "growth"
    /\ UNCHANGED <<raw, growth_df, gantt_df, metrics, raised,
                   best_days_df, worst_days_df>>

\* lines 281-294: a strict cast that fails raises
Growth ==
    /\ pc = "growth"
    /\ IF GrowthRaises(df)
       THEN /\ raised' = "InvalidOperationError"
            /\ pc' = "failed"
            /\ UNCHANGED growth_df
       ELSE /\ growth_df' = GrowthTable(df)
            /\ pc' = "gantt"
            /\ UNCHANGED raised
    /\ UNCHANGED <<raw, df, start_date, gantt_df, metrics,
                   best_days_df, worst_days_df>>

\* line 296
Gantt ==
    /\ pc = "gantt"
    /\ gantt_df' = create_data_for_gantt(df)
    /\ pc' = "metric1"
    /\ UNCHANGED <<raw, df, start_date, growth_df, metrics, raised,
                   best_days_df, worst_days_df>>

\* int(round(x, 0)) of a mean: round(None, 0) and None * 100 raise
\* TypeError, int(nan) raises ValueError
Raise(error) ==
    /\ raised' = error
    /\ pc' = "failed"
    /\ UNCHANGED metrics

\* lines 298-313
Metric1 ==
    /\ pc = "metric1"
    /\ LET x == SleepHoursPerDay(df)
       IN IF IsNull(x) THEN Raise("TypeError")
          ELSE /\ metrics' = [metrics EXCEPT !.SleepHoursPerDay = Some(Round(Val(x)))]
               /\ pc' = "metric2"
               /\ UNCHANGED raised
    /\ UNCHANGED <<raw, df, start_date, growth_df, gantt_df,
                   best_days_df, worst_days_df>>

\* lines 315-330
Metric2 ==
    /\ pc = "metric2"
    /\ LET x == SleepsPerDay(df)
       IN IF IsNull(x) THEN Raise("TypeError")
          ELSE /\ metrics' = [metrics EXCEPT !.SleepsPerDay = Some(Round(Val(x)))]
               /\ pc' = "metric3"
               /\ UNCHANGED raised
    /\ UNCHANGED <<raw, df, start_date, growth_df, gantt_df,
                   best_days_df, worst_days_df>>

\* lines 332-356
Metric3 ==
    /\ pc = "metric3"
    /\ LET x == ShareOfNightSleeps(df)
       IN IF IsNull(x) THEN Raise("TypeError")
          ELSE IF Val(x) = NaN THEN Raise("ValueError")
          ELSE /\ metrics' = [metrics EXCEPT !.PercentOfNightSleep = Some(Round(Val(x)))]
               /\ pc' = "metric4"
               /\ UNCHANGED raised
    /\ UNCHANGED <<raw, df, start_date, growth_df, gantt_df,
                   best_days_df, worst_days_df>>

\* lines 358-373
Metric4 ==
    /\ pc = "metric4"
    /\ LET x == FeedsPerDay(df)
       IN IF IsNull(x) THEN Raise("TypeError")
          ELSE /\ metrics' = [metrics EXCEPT !.FeedsPerDay = Some(Round(Val(x)))]
               /\ pc' = "best"
               /\ UNCHANGED raised
    /\ UNCHANGED <<raw, df, start_date, growth_df, gantt_df,
                   best_days_df, worst_days_df>>

\* line 555
Best ==
    /\ pc = "best"
    /\ best_days_df' \in create_best_days_df(df)
    /\ pc' = "worst"
    /\ UNCHANGED <<raw, df, start_date, growth_df, gantt_df, metrics, raised,
                   worst_days_df>>

\* line 591
Worst ==
    /\ pc = "worst"
    /\ worst_days_df' \in create_worst_days_df(df)
    /\ pc' = "done"
    /\ UNCHANGED <<raw, df, start_date, growth_df, gantt_df, metrics, raised,
                   best_days_df>>

Next ==
    \/ Load
    \/ SelectStartDate
    \/ Growth
    \/ Gantt
    \/ Metric1
    \/ Metric2
    \/ Metric3
    \/ Metric4
    \/ Best
    \/ Worst

Spec == Init /\ [][Next]_vars

----------------------------------------------------------------------------
(* Properties of load_and_process_data *)

\* df is the table load_and_process_data returned
Loaded == pc = "start_date"

\* the calendar days present in the raw log
RawDays ==
    {DateOf(raw[i].Start) : i \in DOMAIN raw}
    \cup {DateOf(Val(raw[i].End)) : i \in {j \in DOMAIN raw : ~IsNull(raw[j].End)}}

FirstRawDay == CHOOSE d \in RawDays : \A e \in RawDays : d <= e

LastRawDay == CHOOSE d \in RawDays : \A e \in RawDays : d >= e

OnBoundaryDay(r) ==
    \/ r.StartDate \in {FirstRawDay, LastRawDay}
    \/ ~IsNull(r.EndDate) /\ Val(r.EndDate) \in {FirstRawDay, LastRawDay}

\* C1 as stated: with at least 3 distinct calendar days in the raw log no row
\* of the output starts or ends on the earliest or the latest of them, and
\* with exactly 2 distinct days the output is empty.
C1_NoBoundaryDay ==
    Loaded =>
        /\ Cardinality(RawDays) >= 3 => \A i \in DOMAIN df : ~OnBoundaryDay(df[i])
        /\ Cardinality(RawDays) = 2 => df = <<>>

\* C1 amended: no row of the output starts on the earliest day, and no row
\* with an End starts or ends on the earliest or the latest day; a row with a
\* null End is kept on every day after the earliest, the latest included, so
\* the output of a log of exactly 2 distinct days holds only rows with a
\* null End.
C1_NoBoundaryDayButOpen ==
    Loaded /\ raw # <<>> =>
        /\ \A i \in DOMAIN df :
              /\ df[i].StartDate # FirstRawDay
              /\ ~IsNull(df[i].End) => ~OnBoundaryDay(df[i])
        /\ Cardinality(RawDays) = 2 => \A i \in DOMAIN df : IsNull(df[i].End)

\* a log of 3 days or more whose output keeps an open row of the latest day
C1_Witness ==
    /\ Loaded
    /\ Cardinality(RawDays) >= 3
    /\ \E i \in DOMAIN df : IsNull(df[i].End) /\ df[i].StartDate = LastRawDay

\* the second of day at which the night window opens, and at which it closes
NightOpens == NIGHT_START_HOUR * HourSeconds

NightCloses == NIGHT_END_HOUR * HourSeconds

SecondOfDay(ts) == ts - DateOf(ts) * DaySeconds

\* C2 as stated: NightDay is StartDate when Start is at or after 18:00, and
\* StartDate minus one day otherwise.
C2_NightDayBefore ==
    Loaded =>
        \A i \in DOMAIN df :
            df[i].NightDay = IF SecondOfDay(df[i].Start) >= NightOpens
                             THEN df[i].StartDate ELSE df[i].StartDate - 1

\* C2 amended: NightDay is StartDate when Start is at or after 18:00, and
\* StartDate plus one day otherwise.
C2_NightDayAfter ==
    Loaded =>
        \A i \in DOMAIN df :
            df[i].NightDay = IF SecondOfDay(df[i].Start) >= NightOpens
                             THEN DateOf(df[i].Start) ELSE DateOf(df[i].Start) + 1

\* an event that starts at 18:00 sharp beside one that starts before 18:00
C2_Witness ==
    /\ Loaded
    /\ \E i \in DOMAIN df : SecondOfDay(df[i].Start) = NightOpens
    /\ \E i \in DOMAIN df : SecondOfDay(df[i].Start) < NightOpens

\* C3: an event with a MiddlePoint is Night exactly when the MiddlePoint's
\* time of day lies in [18:00, 24:00) or in [00:00, 06:00), and Day otherwise
\* (18:00 is Night, 06:00 is Day, 17:59 is Day, 05:59 is Night).
C3_NightWindow ==
    Loaded =>
        \A i \in DOMAIN df :
            ~IsNull(df[i].MiddlePoint) =>
                LET tod == SecondOfDay(Val(df[i].MiddlePoint))
                IN df[i].DayOrNight =
                     IF tod >= NightOpens \/ tod < NightCloses
                     THEN "Night" ELSE "Day"

\* a MiddlePoint at 18:00 sharp labelled Night beside one at 06:00 sharp
\* labelled Day
C3_Witness ==
    /\ Loaded
    /\ \E i \in DOMAIN df :
          /\ ~IsNull(df[i].MiddlePoint)
          /\ SecondOfDay(Val(df[i].MiddlePoint)) = NightOpens
          /\ df[i].DayOrNight = "Night"
    /\ \E i \in DOMAIN df :
          /\ ~IsNull(df[i].MiddlePoint)
          /\ SecondOfDay(Val(df[i].MiddlePoint)) = NightCloses
          /\ df[i].DayOrNight = "Day"

\* C7 as stated: an event whose End is null is labelled from its Start: Night
\* exactly when the hour of Start lies in [18, 24) or [0, 6), Day otherwise.
C7_OpenEventLabelledFromStart ==
    Loaded =>
        \A i \in DOMAIN df :
            IsNull(df[i].End) =>
                LET tod == SecondOfDay(df[i].Start)
                IN df[i].DayOrNight =
                     IF tod >= NightOpens \/ tod < NightCloses
                     THEN "Night" ELSE "Day"

----------------------------------------------------------------------------
(* Properties of create_data_for_gantt *)

\* gantt_df is the table create_data_for_gantt returned for df
Split == pc = "metric1"

SegmentsOf(i) == {k \in DOMAIN gantt_df : gantt_df[k].Row = i}

\* the datetimes a segment runs from and to on its own Date
SegmentFrom(g) == g.Date * DaySeconds + g.StartTime

SegmentTo(g) == g.Date * DaySeconds + Val(g.EndTime)

OneMidnight(r) == ~IsNull(r.EndDate) /\ Val(r.EndDate) = r.StartDate + 1

\* the two segments a, b of event r run from Start to End, the first on
\* StartDate and the second on EndDate from its midnight on, with `gap`
\* seconds between them
TwoSegments(r, a, b, gap) ==
    /\ a.Date = r.StartDate
    /\ b.Date = Val(r.EndDate)
    /\ SegmentFrom(a) = r.Start
    /\ SegmentTo(a) + gap = SegmentFrom(b)
    /\ SegmentFrom(b) = Val(r.EndDate) * DaySeconds
    /\ SegmentTo(b) = Val(r.End)

SplitInTwo(gap) ==
    \A i \in DOMAIN df :
        OneMidnight(df[i]) =>
            \E k, l \in SegmentsOf(i) :
                /\ k # l
                /\ SegmentsOf(i) = {k, l}
                /\ TwoSegments(df[i], gantt_df[k], gantt_df[l], gap)

\* C4 as stated: an event that spans exactly one midnight yields exactly two
\* segments, dated StartDate and EndDate, that cover [Start, End) without
\* overlap and meet at the day boundary.
C4_SegmentsMeet == Split => SplitInTwo(0)

\* C4 amended: an event that spans exactly one midnight yields exactly two
\* segments, dated StartDate and EndDate, that do not overlap: the first runs
\* from Start to 23:59:59 of StartDate, the second from 00:00:00 of EndDate to
\* End, so they cover [Start, End) but for the last second before midnight.
C4_SegmentsOneSecondApart == Split => SplitInTwo(1)

\* an event over exactly one midnight has been split
C4_Witness ==
    /\ Split
    /\ \E i \in DOMAIN df : OneMidnight(df[i]) /\ Cardinality(SegmentsOf(i)) = 2

\* C5 as stated: every event handed to create_data_for_gantt, one with a null
\* End included, yields one or two segments, and an event with
\* StartDate = EndDate yields exactly one, with the event's own StartTime,
\* EndTime and StartDate.
C5_OneOrTwoSegments ==
    Split =>
        \A i \in DOMAIN df :
            /\ Cardinality(SegmentsOf(i)) \in {1, 2}
            /\ (~IsNull(df[i].EndDate) /\ Val(df[i].EndDate) = df[i].StartDate) =>
                  \E k \in SegmentsOf(i) :
                      /\ SegmentsOf(i) = {k}
                      /\ gantt_df[k].StartTime = df[i].StartTime
                      /\ gantt_df[k].EndTime = df[i].EndTime
                      /\ gantt_df[k].Date = df[i].StartDate

----------------------------------------------------------------------------
(* Properties of the ranked tables *)

\* both ranked tables have been returned for df
Ranked == pc = "done"

Dates(t) == {t[i].Date : i \in DOMAIN t}

NightRows(d) ==
    {i \in DOMAIN df : /\ df[i].Type = "Sleep"
                        /\ df[i].DayOrNight = "Night"
                        /\ df[i].NightDay = d
                        /\ ~IsNull(df[i].Duration)}

QualifyingNights ==
    {df[i].NightDay : i \in {j \in DOMAIN df : /\ df[j].Type = "Sleep"
                                                 /\ df[j].DayOrNight = "Night"}}

RECURSIVE TotalOf(_)
TotalOf(rows) ==
    IF rows = {} THEN 0
    ELSE LET i == CHOOSE j \in rows : TRUE
         IN Val(df[i].Duration) + TotalOf(rows \ {i})

\* the mean Duration of night d is less than that of night e
ShorterNight(d, e) ==
    TotalOf(NightRows(d)) * Cardinality(NightRows(e))
        < TotalOf(NightRows(e)) * Cardinality(NightRows(d))

\* fewer than 10 nights are strictly shorter / strictly longer than night d
AmongShortest(d) == Cardinality({e \in QualifyingNights : ShorterNight(e, d)}) < TopN

AmongLongest(d) == Cardinality({e \in QualifyingNights : ShorterNight(d, e)}) < TopN

\* C6 as stated: with more than 20 distinct qualifying nights, nights of equal
\* mean Duration included, the best and the worst table share no Date.
C6_BestWorstDisjoint ==
    Ranked /\ Cardinality(QualifyingNights) > 2 * TopN =>
        Dates(best_days_df) \cap Dates(worst_days_df) = {}

\* C6 amended: with more than 20 distinct qualifying nights the best and the
\* worst table share no Date provided no night has both fewer than 10
\* strictly shorter and fewer than 10 strictly longer nights, that is,
\* provided the 10th-longest mean is strictly greater than the 10th-shortest;
\* nights that tie across that rank come out in no defined order and one of
\* them can be in both tables.
C6_BestWorstDisjointUnlessTied ==
    (/\ Ranked
     /\ Cardinality(QualifyingNights) > 2 * TopN
     /\ \A d \in QualifyingNights : ~(AmongShortest(d) /\ AmongLongest(d)))
    => Dates(best_days_df) \cap Dates(worst_days_df) = {}

\* more than 20 nights, two of them of equal mean among the 10 shortest, and
\* two full tables that share no Date
C6_Witness ==
    /\ Ranked
    /\ Cardinality(QualifyingNights) > 2 * TopN
    /\ \A d \in QualifyingNights : ~(AmongShortest(d) /\ AmongLongest(d))
    /\ \E d, e \in QualifyingNights :
          /\ d # e
          /\ AmongShortest(d)
          /\ ~ShorterNight(d, e) /\ ~ShorterNight(e, d)
    /\ Len(best_days_df) = TopN
    /\ Len(worst_days_df) = TopN
    /\ Dates(best_days_df) \cap Dates(worst_days_df) = {}

----------------------------------------------------------------------------
(* Properties of the run *)

HasRows(type) == \E i \in DOMAIN df : df[i].Type = type

\* C8 as stated: when the normalized table is empty or holds no Sleep rows or
\* no Feed rows, no overview metric fails: the run goes on with a null value.
C8_NoMetricFails ==
    (pc # "load" /\ (~HasRows("Sleep") \/ ~HasRows("Feed")))
    => ~(pc = "failed" /\ raised = "TypeError")

\* the text is a number followed by the unit
NumberWithUnit(text, unit) ==
    /\ Len(text) > Len(unit)
    /\ SubSeq(text, Len(text) - Len(unit) + 1, Len(text)) = unit
    /\ IsFloat(SubSeq(text, 1, Len(text) - Len(unit)))

Parsed(text, unit) ==
    IF ~IsNull(text) /\ NumberWithUnit(Val(text), unit)
    THEN Some(FloatOf(SubSeq(Val(text), 1, Len(Val(text)) - Len(unit))))
    ELSE Null

\* C9 as stated: parsing the Growth rows never raises and keeps every row;
\* each measurement is the number when its text is a number followed by the
\* unit, and missing when the unit is absent or the rest is not a number.
C9_GrowthParsedOrMissing ==
    /\ raised # "InvalidOperationError"
    /\ pc = "gantt" =>
          /\ Len(growth_df) = Len(GrowthOf(df))
          /\ \A i \in DOMAIN growth_df :
                LET r == GrowthOf(df)[i]
                IN /\ growth_df[i].Weight = Parsed(r.StartCondition, Kg)
                   /\ growth_df[i].Height = Parsed(r.StartLocation, Cm)
                   /\ growth_df[i].HeadCircumference = Parsed(r.EndCondition, Cm)

\* C10: of a log of n >= 3 days in a row with one sleep per day from 22:00
\* for 8 hours, the trimming drops the sleeps of the first and of the last
\* day and leaves n - 2, and with the default start_date the metric
\* "Sleep hours per day" is 8.
C10_EightHoursPerDay ==
    \A n \in 3..MaxNights :
        raw = NightlyLog(n) =>
            /\ Loaded =>
                  /\ Len(df) = n - 2
                  /\ \A i \in DOMAIN df : df[i].StartDate \notin {1, n}
            /\ (pc = "metric2" /\ start_date = Some(2)) =>
                  metrics.SleepHoursPerDay = Some(8)

\* the metric has been evaluated for the log of 4 days
C10_Witness ==
    /\ raw = NightlyLog(4)
    /\ pc = "metric2"
    /\ start_date = Some(2)
    /\ Len(df) = 2
    /\ metrics.SleepHoursPerDay = Some(8)

====
